---- MODULE Spec2Model ----
(***************************************************************************)
(* MCP DAZ server (mcp_daz_server.py): JSON-RPC dispatch over two          *)
(* bindings, a websocket handler run per connection on one asyncio event   *)
(* loop and a --stdio read loop, with tools/call executing an external     *)
(* process under CALL_TIMEOUT.                                             *)
(***************************************************************************)
EXTENDS Integers, Sequences, FiniteSets, TLC

VARIABLES mode, status, req_id, phase, cur, proc, done, lingering, TOOLS

vars == <<mode, status, req_id, phase, cur, proc, done, lingering, TOOLS>>

\* ---------------------------------------------------------------- bounds
\* killed processes that may still be alive at one time
MaxLinger == 1

\* ------------------------------------------------------- program constants
CALL_TIMEOUT == 60
TimeoutRc == 124
LaunchFailRc == 1
DefaultWidth == 800
DefaultHeight == 600
ParseErrorCode == -32700
MethodNotFoundCode == -32601
ServerErrorCode == -32000
NoReturncodeCode == -1

DAZ_EXE == "dazstudio.exe"
DAZ_SCRIPT_PATH == "scripts"
DefaultProtocolVersion == "2025-06-18"

\* ------------------------------------------------------------ JSON values
\* Python None / JSON null
Null == "null"
\* a key that is absent from a JSON object
NoKey == "nokey"
\* a local name that has not been assigned yet
Unbound == "unbound"

Ids == {"id1"}
IdVals == Ids \cup {Null, NoKey}

\* dict.get(key) with no default: an absent key reads as None
Get(v) == IF v = NoKey THEN Null ELSE v

\* dict.get(key, default)
GetOr(v, d) == IF v = NoKey THEN d ELSE v

ToolNames == <<"load_scene", "set_pose", "render_scene", "read_scene", "list_content">>

ToolTable == [i \in 1..5 |-> [name |-> ToolNames[i]]]

KnownTools == {ToolNames[i] : i \in 1..5}

RoutedMethods == {"initialize", "tools/list", "tools/call", "resources/list", "prompts/list"}

LegacyMethods == {"loadScene", "setPose", "render"}

\* ---- argument values: JSON strings and JSON integers
StrV(s) == [t |-> "str", s |-> s]
IntV(n) == [t |-> "int", n |-> n]
Digit(d) == CASE d = 0 -> "0" [] d = 1 -> "1" [] d = 2 -> "2" [] d = 3 -> "3" [] d = 4 -> "4"
              [] d = 5 -> "5" [] d = 6 -> "6" [] d = 7 -> "7" [] d = 8 -> "8" [] d = 9 -> "9"

RECURSIVE NatToStr(_)
NatToStr(n) == IF n < 10 THEN Digit(n) ELSE NatToStr(n \div 10) \o Digit(n % 10)

\* str(a) as applied to each script argument
Str(v) == IF v.t = "int" THEN NatToStr(v.n) ELSE v.s

\* ---- arguments of a tools/call: absent (or falsy), a truthy non-dict, or a dict
ArgKeys == {"scene_path", "pose_path", "figure_name", "output_path", "width", "height"}

ArgValue(k) == CASE k = "scene_path" -> StrV("scene.duf")
                 [] k = "pose_path" -> StrV("pose.duf")
                 [] k = "figure_name" -> StrV("Genesis8")
                 [] k = "output_path" -> StrV("out.png")
                 [] k = "width" -> IntV(1024)
                 [] k = "height" -> IntV(768)

NoArgs == [shape |-> "absent", keys |-> {}]
BadArgs == [shape |-> "bad", keys |-> {}]
DictArgs(ks) == [shape |-> "dict", keys |-> ks]

ArgGet_NoDefault(args, k, d) == IF k \in args.keys THEN ArgValue(k) ELSE StrV("None")

\* args.get(key, default) on an arguments dict
ArgGet(args, k, d) == IF k \in args.keys THEN ArgValue(k) ELSE d

ArgsFor(name) == CASE name = "load_scene" -> {DictArgs(ks) : ks \in SUBSET {"scene_path"}}
                   [] name = "set_pose" -> {DictArgs(ks) : ks \in SUBSET {"pose_path", "figure_name"}}
                   [] name = "render_scene" -> {DictArgs(ks) : ks \in SUBSET {"output_path", "width", "height"}}
                   [] OTHER -> {DictArgs({})}

\* ---- params: absent or falsy, a truthy non-dict, or a dict
NoParams == [shape |-> "absent", pv |-> NoKey, name |-> NoKey, arguments |-> NoArgs]
BadParams == [shape |-> "bad", pv |-> NoKey, name |-> NoKey, arguments |-> NoArgs]
InitDict(pv) == [shape |-> "dict", pv |-> pv, name |-> NoKey, arguments |-> NoArgs]
CallDict(name, args) == [shape |-> "dict", pv |-> NoKey, name |-> name, arguments |-> args]

InitParams == {NoParams, BadParams, InitDict(NoKey), InitDict("2024-11-05")}

CallNames == KnownTools \cup {"bogus_tool", NoKey}

CallParams == {NoParams, BadParams}
              \cup {CallDict(n, a) : n \in CallNames, a \in {NoArgs, BadArgs}}
              \cup UNION {{CallDict(n, a) : a \in ArgsFor(n)} : n \in KnownTools}

\* ---- incoming messages (text frames / lines)
BadJson == [kind |-> "badjson", id |-> NoKey, method |-> NoKey, params |-> NoParams]
NonObject == [kind |-> "nonobject", id |-> NoKey, method |-> NoKey, params |-> NoParams]
Obj(id, method, params) == [kind |-> "object", id |-> id, method |-> method, params |-> params]
NoMsg == [kind |-> "none", id |-> NoKey, method |-> NoKey, params |-> NoParams]

Messages == {BadJson, NonObject}
            \cup {Obj(i, m, NoParams) : i \in IdVals, m \in {"tools/list", "resources/list", "prompts/list"}}
            \cup {Obj(i, m, NoParams) : i \in {NoKey, "id1"}, m \in {"notifications/initialized", "bogus/method"}}
            \cup {Obj("id1", m, NoParams) : m \in LegacyMethods \cup {NoKey}}
            \cup {Obj("id1", "initialize", p) : p \in InitParams}
            \cup {Obj(i, "initialize", NoParams) : i \in {NoKey, Null}}
            \cup {Obj("id1", "tools/call", p) : p \in CallParams}
            \cup {Obj(NoKey, "tools/call", CallDict(n, NoArgs)) : n \in {"read_scene", "bogus_tool"}}

\* ------------------------------------------------------- JSON-RPC helpers
rpc_result(id, result) == [kind |-> "result", id |-> id, result |-> result]

rpc_error_NullId(id, code, message) == [kind |-> "error", id |-> Null, code |-> code, message |-> message]

rpc_error(id, code, message) == [kind |-> "error", id |-> id, code |-> code, message |-> message]

ParseErrorReply_StaleCode == rpc_error(Null, ServerErrorCode, "Parse error")

\* the reply written by `except json.JSONDecodeError`
ParseErrorReply == rpc_error(Null, ParseErrorCode, "Parse error")

\* the reply written by `except Exception as e`, with the loop's req_id
FaultReply(rid, e) == rpc_error(rid, ServerErrorCode, "Server error: " \o e)

\* str() of a value interpolated into a message (None prints as "None")
PyStr(v) == IF v = Null THEN "None" ELSE v

\* what a handler does: returns a response, raises, or calls run_daz_script
Return(r) == [t |-> "return", resp |-> r]
Raise(e) == [t |-> "raise", e |-> e]
Run(script, args) == [t |-> "run", script |-> script, args |-> args]
Unknown_Runs(result) == [t |-> "run", script |-> "tool.dsa", args |-> <<>>]
Unknown(result) == [t |-> "unknown", result |-> result]

\* `params or {}`: None and falsy values become the empty dict
OrEmpty(params) == IF params.shape = "absent" THEN InitDict(NoKey) ELSE params

\* ---------------------------------------------------- MCP method handlers
handle_initialize(id, params) ==
    IF params.shape = "bad"
    THEN Raise("AttributeError")
    ELSE Return(rpc_result(id, [protocolVersion |-> GetOr(params.pv, DefaultProtocolVersion),
                                capabilities |-> {"tools", "resources", "prompts"},
                                serverInfo |-> [name |-> "daz-studio-mcp", version |-> "1.3.0"]]))

handle_tools_list_Reversed(id, tools) ==
    rpc_result(id, [tools |-> [i \in 1..Len(tools) |-> tools[Len(tools) + 1 - i]]])

handle_tools_list(id, tools) == rpc_result(id, [tools |-> tools])

\* handle_tools_call up to the call of run_daz_script
ToolsCallStart(params) ==
    IF params.shape = "bad"
    THEN Raise("AttributeError")
    ELSE LET name == Get(OrEmpty(params).name)
             args == OrEmpty(params).arguments
         IN  CASE name = "load_scene" ->
                    IF args.shape = "bad" THEN Raise("AttributeError")
                    ELSE Run("load_scene.dsa", <<ArgGet(args, "scene_path", StrV(""))>>)
               [] name = "set_pose" ->
                    IF args.shape = "bad" THEN Raise("AttributeError")
                    ELSE Run("set_pose.dsa", <<ArgGet(args, "pose_path", StrV("")),
                                               ArgGet(args, "figure_name", StrV(""))>>)
               [] name = "render_scene" ->
                    IF args.shape = "bad" THEN Raise("AttributeError")
                    ELSE Run("render_scene.dsa", <<ArgGet(args, "output_path", StrV("")),
                                                   ArgGet(args, "width", IntV(DefaultWidth)),
                                                   ArgGet(args, "height", IntV(DefaultHeight))>>)
               [] name = "read_scene" -> Run("read_scene.dsa", <<>>)
               [] name = "list_content" -> Run("list_content.dsa", <<>>)
               [] OTHER -> Unknown([status |-> "error", stderr |-> "Unknown tool: " \o PyStr(name)])

\* handle_tools_call after run_daz_script: normalize the result
ToolsCallFinish(id, result) ==
    IF result.status = "ok"
    THEN rpc_result(id, [content |-> <<[type |-> "text", text |-> result]>>])
    ELSE rpc_result(id, [error |-> [message |-> result.stderr,
                                    code |-> IF "returncode" \in DOMAIN result
                                             THEN result.returncode ELSE NoReturncodeCode]])

\* --------------------------------------------------------- Process Runner
_script_path(name) == DAZ_SCRIPT_PATH \o "/" \o name

RECURSIVE ScriptArgs(_)
ScriptArgs(args) == IF args = <<>> THEN <<>>
                    ELSE <<"-scriptArg", Str(Head(args))>> \o ScriptArgs(Tail(args))

BuildCmd(script_name, args) ==
    <<DAZ_EXE, "-noPrompt", "-script", _script_path(script_name)>> \o ScriptArgs(args)

\* bytes.decode("utf-8", "ignore").strip() on the captured output
Strip(s) == CASE s = "{}\n" -> "{}"
              [] s = " oops\n" -> "oops"
              [] OTHER -> s

\* what can happen to one invocation
ExitCodes == {0, 1, 2, 124}
ProcOutputs == {[out |-> "{}\n", err |-> " oops\n"]}
Exited(rc, o) == [t |-> "exit", rc |-> rc, out |-> o.out, err |-> o.err, ms |-> 1500]
TimedOut(o) == [t |-> "timeout", rc |-> 0, out |-> o.out, err |-> o.err, ms |-> CALL_TIMEOUT * 1000]
LaunchFailed == [t |-> "launchfail", rc |-> 0, out |-> "", err |-> "", ms |-> 0]
NoOutcome == [t |-> "none", rc |-> 0, out |-> "", err |-> "", ms |-> 0]

Collect_LaunchRcZero(o) ==
    CASE o.t = "exit" -> [rc |-> o.rc, out |-> o.out, err |-> o.err]
      [] o.t = "timeout" -> [rc |-> TimeoutRc, out |-> "",
                             err |-> "timeout: DAZ script exceeded CALL_TIMEOUT"]
      [] o.t = "launchfail" -> [rc |-> 0, out |-> "", err |-> "launch exception"]

\* the try/except around Popen and communicate: (rc, out, err)
Collect(o) == CASE o.t = "exit" -> [rc |-> o.rc, out |-> o.out, err |-> o.err]
                [] o.t = "timeout" -> [rc |-> TimeoutRc, out |-> "",
                                       err |-> "timeout: DAZ script exceeded CALL_TIMEOUT"]
                [] o.t = "launchfail" -> [rc |-> LaunchFailRc, out |-> "", err |-> "launch exception"]

\* the payload built from (rc, out, err)
Payload(c, ms) ==
    IF c.rc = TimeoutRc
    THEN [status |-> "error", reason |-> "timeout", timeout_s |-> CALL_TIMEOUT,
          stdout |-> Strip(c.out), stderr |-> Strip(c.err), duration_ms |-> ms]
    ELSE [status |-> IF c.rc = 0 THEN "ok" ELSE "error", returncode |-> c.rc,
          stdout |-> Strip(c.out), stderr |-> Strip(c.err), duration_ms |-> ms]

run_daz_script(o) == Payload(Collect(o), o.ms)

NoResult == [status |-> "none"]

\* ------------------------------------------------------------------ state
\* mode      : "stdio" when --stdio is in argv, else "duplex"
\* status    : per loop, "none" (not started), "open", "closed" (transport
\*             closed / end of input), "crashed" (an exception left the loop)
\* req_id    : the loop's req_id name (Unbound until first assigned)
\* phase     : "idle", or "running" while communicate() waits on the process
\* cur, proc : the message being processed and the command line launched for it
\* done      : the processing step completed last (what was read, written and
\*             launched); none while a step waits on its process
\* lingering : killed processes that have not terminated yet
\* TOOLS     : the tool registry
Conns == {"c1", "c2"}
Loops == Conns \cup {"stdio"}

NoDone == [loop |-> "none", msg |-> NoMsg, sent |-> <<>>,
           launched |-> <<>>, outcome |-> NoOutcome, result |-> NoResult, ended |-> FALSE]

Init ==
    /\ mode \in {"duplex", "stdio"}
    /\ status = [l \in Loops |-> IF mode = "stdio" /\ l = "stdio" THEN "open" ELSE "none"]
    /\ req_id = [l \in Loops |-> Unbound]
    /\ phase = [l \in Loops |-> "idle"]
    /\ cur = [l \in Loops |-> NoMsg]
    /\ proc = [l \in Loops |-> <<>>]
    /\ done = NoDone
    /\ lingering = 0
    /\ TOOLS = ToolTable

Idle_Always(l) == TRUE

\* a loop is between messages
Idle(l) == phase[l] = "idle"

\* the asyncio event loop thread is not inside a handler's synchronous code
EventLoopFree == \A c \in Conns : Idle(c)

\* one processing step of loop l is over: what it wrote, and what it leaves
Complete(l, m, newId, sent, cmd, o, res, newStatus) ==
    /\ req_id' = [req_id EXCEPT ![l] = newId]
    /\ status' = [status EXCEPT ![l] = newStatus]
    /\ phase' = [phase EXCEPT ![l] = "idle"]
    /\ cur' = [cur EXCEPT ![l] = NoMsg]
    /\ proc' = [proc EXCEPT ![l] = <<>>]
    /\ done' = [loop |-> l, msg |-> m, sent |-> sent,
                launched |-> cmd, outcome |-> o, result |-> res, ended |-> newStatus # "open"]

\* subprocess.Popen succeeded: the handler now blocks in communicate()
Launch(l, m, newId, cmd) ==
    /\ req_id' = [req_id EXCEPT ![l] = newId]
    /\ phase' = [phase EXCEPT ![l] = "running"]
    /\ cur' = [cur EXCEPT ![l] = m]
    /\ proc' = [proc EXCEPT ![l] = cmd]
    /\ done' = NoDone
    /\ UNCHANGED status

\* ------------------------------------------------------- duplex binding
\* websockets.serve starts handle_mcp_request for a new connection
Connect(c) ==
    /\ mode = "duplex"
    /\ status[c] = "none"
    /\ EventLoopFree
    /\ status' = [status EXCEPT ![c] = "open"]
    /\ UNCHANGED <<mode, req_id, phase, cur, proc, done, lingering, TOOLS>>

\* the method ladder of handle_mcp_request
DuplexDispatch(id, method, params, tools) ==
    CASE method = "initialize" -> handle_initialize(id, OrEmpty(params))
      [] method = "tools/list" -> Return(handle_tools_list(id, tools))
      [] method = "tools/call" -> ToolsCallStart(params)
      [] method = "resources/list" -> Return(rpc_result(id, [resources |-> <<>>]))
      [] method = "prompts/list" -> Return(rpc_result(id, [prompts |-> <<>>]))
      [] OTHER -> Return(rpc_error(id, MethodNotFoundCode, "Method not found: " \o PyStr(method)))

\* what one processing step does: the messages it writes, the req_id and
\* loop status it leaves, and whether it is now blocked in communicate()
Step(sent, id, st, waits, cmd, o, res) ==
    [sent |-> sent, id |-> id, status |-> st, waits |-> waits, cmd |-> cmd,
     outcome |-> o, result |-> res]

\* one iteration of `async for message in websocket`, up to the send or,
\* for a tool call, up to the blocking communicate(); rid is req_id on entry
DuplexStep(rid, m, launchOk, tools) ==
    IF m.kind = "badjson"
    THEN Step(<<ParseErrorReply>>, rid, "open", FALSE, <<>>, NoOutcome, NoResult)
    ELSE IF m.kind = "nonobject"
    THEN IF rid = Unbound
         THEN Step(<<>>, rid, "crashed", FALSE, <<>>, NoOutcome, NoResult)
         ELSE Step(<<FaultReply(rid, "AttributeError")>>, rid, "open", FALSE,
                   <<>>, NoOutcome, NoResult)
    ELSE LET id == Get(m.id)
             d == DuplexDispatch(id, Get(m.method), m.params, tools)
         IN  CASE d.t = "return" ->
                    Step(<<d.resp>>, id, "open", FALSE, <<>>, NoOutcome, NoResult)
               [] d.t = "raise" ->
                    Step(<<FaultReply(id, d.e)>>, id, "open", FALSE, <<>>, NoOutcome, NoResult)
               [] d.t = "unknown" ->
                    Step(<<ToolsCallFinish(id, d.result)>>, id, "open", FALSE,
                         <<>>, NoOutcome, d.result)
               [] d.t = "run" ->
                    IF launchOk
                    THEN Step(<<>>, id, "open", TRUE, BuildCmd(d.script, d.args),
                              NoOutcome, NoResult)
                    ELSE Step(<<ToolsCallFinish(id, run_daz_script(LaunchFailed))>>, id, "open",
                              FALSE, BuildCmd(d.script, d.args), LaunchFailed,
                              run_daz_script(LaunchFailed))

DuplexHandle(c, m, launchOk) ==
    \E s \in {DuplexStep(req_id[c], m, launchOk, TOOLS)} :
    IF s.waits
    THEN Launch(c, m, s.id, s.cmd)
    ELSE Complete(c, m, s.id, s.sent, s.cmd, s.outcome, s.result, s.status)

DuplexRecv(c) ==
    /\ mode = "duplex"
    /\ status[c] = "open"
    /\ EventLoopFree
    /\ \E m \in Messages, launchOk \in BOOLEAN : DuplexHandle(c, m, launchOk)
    /\ UNCHANGED <<mode, lingering, TOOLS>>

\* communicate() returns within CALL_TIMEOUT; the response is sent
DuplexProcExit(c) ==
    /\ mode = "duplex"
    /\ phase[c] = "running"
    /\ \E rc \in ExitCodes, o \in ProcOutputs :
          Complete(c, cur[c], req_id[c],
                   <<ToolsCallFinish(req_id[c], run_daz_script(Exited(rc, o)))>>,
                   proc[c], Exited(rc, o), run_daz_script(Exited(rc, o)), "open")
    /\ UNCHANGED <<mode, lingering, TOOLS>>

\* communicate() raises TimeoutExpired; proc.kill() is best effort and is not
\* followed by a wait, so the process may outlive the call
DuplexProcTimeout(c) ==
    /\ mode = "duplex"
    /\ phase[c] = "running"
    /\ \E o \in ProcOutputs :
          Complete(c, cur[c], req_id[c],
                   <<ToolsCallFinish(req_id[c], run_daz_script(TimedOut(o)))>>,
                   proc[c], TimedOut(o), run_daz_script(TimedOut(o)), "open")
    /\ \E gone \in BOOLEAN : lingering' = IF gone \/ lingering >= MaxLinger THEN lingering ELSE lingering + 1
    /\ UNCHANGED <<mode, TOOLS>>

\* the client closes the connection: `async for` ends
DuplexClose(c) ==
    /\ mode = "duplex"
    /\ status[c] = "open"
    /\ EventLoopFree
    /\ status' = [status EXCEPT ![c] = "closed"]
    /\ UNCHANGED <<mode, req_id, phase, cur, proc, done, lingering, TOOLS>>

\* -------------------------------------------------------- stdio binding
\* the method ladder of the --stdio loop
StdioDispatch(id, method, params, tools) ==
    CASE method = "initialize" -> handle_initialize(id, OrEmpty(params))
      [] method = "tools/list" -> Return(handle_tools_list(id, tools))
      [] method = "tools/call" -> ToolsCallStart(params)
      [] method = "resources/list" -> Return(rpc_result(id, [resources |-> <<>>]))
      [] method = "prompts/list" -> Return(rpc_result(id, [prompts |-> <<>>]))
      [] OTHER -> Return(rpc_error(id, MethodNotFoundCode, "Method not found: " \o PyStr(method)))

\* one iteration of the `while True` loop for a non-empty line, up to the
\* write and flush or, for a tool call, up to the blocking communicate();
\* an exception raised inside the fault handler is caught by the outer try
StdioStep(rid, m, launchOk, tools) ==
    IF m.kind = "badjson"
    THEN Step(<<ParseErrorReply>>, rid, "open", FALSE, <<>>, NoOutcome, NoResult)
    ELSE IF m.kind = "nonobject"
    THEN IF rid = Unbound
         THEN Step(<<>>, rid, "open", FALSE, <<>>, NoOutcome, NoResult)
         ELSE Step(<<FaultReply(rid, "AttributeError")>>, rid, "open", FALSE,
                   <<>>, NoOutcome, NoResult)
    ELSE LET id == Get(m.id)
             d == StdioDispatch(id, Get(m.method), m.params, tools)
         IN  CASE d.t = "return" ->
                    Step(<<d.resp>>, id, "open", FALSE, <<>>, NoOutcome, NoResult)
               [] d.t = "raise" ->
                    Step(<<FaultReply(id, d.e)>>, id, "open", FALSE, <<>>, NoOutcome, NoResult)
               [] d.t = "unknown" ->
                    Step(<<ToolsCallFinish(id, d.result)>>, id, "open", FALSE,
                         <<>>, NoOutcome, d.result)
               [] d.t = "run" ->
                    IF launchOk
                    THEN Step(<<>>, id, "open", TRUE, BuildCmd(d.script, d.args),
                              NoOutcome, NoResult)
                    ELSE Step(<<ToolsCallFinish(id, run_daz_script(LaunchFailed))>>, id, "open",
                              FALSE, BuildCmd(d.script, d.args), LaunchFailed,
                              run_daz_script(LaunchFailed))

StdioHandle(m, launchOk) ==
    \E s \in {StdioStep(req_id["stdio"], m, launchOk, TOOLS)} :
    IF s.waits
    THEN Launch("stdio", m, s.id, s.cmd)
    ELSE Complete("stdio", m, s.id, s.sent, s.cmd, s.outcome, s.result, s.status)

StdioReadLine ==
    /\ mode = "stdio"
    /\ status["stdio"] = "open"
    /\ Idle("stdio")
    /\ \E m \in Messages, launchOk \in BOOLEAN : StdioHandle(m, launchOk)
    /\ UNCHANGED <<mode, lingering, TOOLS>>

StdioProcExit ==
    /\ mode = "stdio"
    /\ phase["stdio"] = "running"
    /\ \E rc \in ExitCodes, o \in ProcOutputs :
          Complete("stdio", cur["stdio"], req_id["stdio"],
                   <<ToolsCallFinish(req_id["stdio"], run_daz_script(Exited(rc, o)))>>,
                   proc["stdio"], Exited(rc, o), run_daz_script(Exited(rc, o)), "open")
    /\ UNCHANGED <<mode, lingering, TOOLS>>

StdioProcTimeout_NoTimeout ==
    /\ mode = "stdio"
    /\ phase["stdio"] = "running"
    /\ FALSE
    /\ UNCHANGED vars

\* communicate() raises TimeoutExpired after CALL_TIMEOUT; the kill is not waited on
StdioProcTimeout ==
    /\ mode = "stdio"
    /\ phase["stdio"] = "running"
    /\ \E o \in ProcOutputs :
          Complete("stdio", cur["stdio"], req_id["stdio"],
                   <<ToolsCallFinish(req_id["stdio"], run_daz_script(TimedOut(o)))>>,
                   proc["stdio"], TimedOut(o), run_daz_script(TimedOut(o)), "open")
    /\ \E gone \in BOOLEAN : lingering' = IF gone \/ lingering >= MaxLinger THEN lingering ELSE lingering + 1
    /\ UNCHANGED <<mode, TOOLS>>

\* readline() returns the empty string: end of input, `break`
StdioEof ==
    /\ mode = "stdio"
    /\ status["stdio"] = "open"
    /\ Idle("stdio")
    /\ status' = [status EXCEPT !["stdio"] = "closed"]
    /\ UNCHANGED <<mode, req_id, phase, cur, proc, done, lingering, TOOLS>>

\* ------------------------------------------------------------ environment
\* a killed process finally terminates
KilledProcessDies ==
    /\ lingering > 0
    /\ lingering' = lingering - 1
    /\ UNCHANGED <<mode, status, req_id, phase, cur, proc, done, TOOLS>>

Next ==
    \/ \E c \in Conns : Connect(c)
    \/ \E c \in Conns : DuplexRecv(c)
    \/ \E c \in Conns : DuplexProcExit(c)
    \/ \E c \in Conns : DuplexProcTimeout(c)
    \/ \E c \in Conns : DuplexClose(c)
    \/ StdioReadLine
    \/ StdioProcExit
    \/ StdioProcTimeout
    \/ StdioEof
    \/ KilledProcessDies

Spec == Init /\ [][Next]_vars

\* communicate(timeout=CALL_TIMEOUT) cannot wait longer than the timeout: a
\* loop blocked on a process is released by TimeoutExpired at the latest
FairSpec ==
    /\ Spec
    /\ WF_vars(StdioProcTimeout)
    /\ \A c \in Conns : WF_vars(DuplexProcTimeout(c))

\* ================================================================ claims
IsRequest(m) == m.kind = "object" /\ Get(m.id) # Null

IsNotification(m) == m.kind = "object" /\ m.id = NoKey /\ m.method # NoKey

\* the id that can be recovered from a message
RecoverableId(m) == IF m.kind = "object" THEN Get(m.id) ELSE Null

\* messages whose dispatch raises: not an object, or params / arguments that
\* are not a mapping where the handler reads them
DispatchFaults(m) ==
    \/ m.kind = "nonobject"
    \/ /\ m.kind = "object"
       /\ m.method \in {"initialize", "tools/call"}
       /\ m.params.shape = "bad"
    \/ /\ m.kind = "object"
       /\ m.method = "tools/call"
       /\ m.params.shape = "dict"
       /\ m.params.name \in {"load_scene", "set_pose", "render_scene"}
       /\ m.params.arguments.shape = "bad"

\* C1: every message that parses to an object with a non-null id is answered
\* by exactly one message, carrying that id, once its processing is over
C1_OneResponseSameId ==
    (done.loop # "none" /\ IsRequest(done.msg)) =>
        (Len(done.sent) = 1 /\ done.sent[1].id = done.msg.id)

C1_Witness ==
    /\ done.loop \in Conns
    /\ IsRequest(done.msg)
    /\ DispatchFaults(done.msg)
    /\ Len(done.sent) = 1
    /\ done.sent[1].code = ServerErrorCode
    /\ done.sent[1].id = "id1"

\* C2: a notification (an object with a method and no id key) makes the
\* server write nothing
C2_NotificationSilent ==
    (done.loop # "none" /\ IsNotification(done.msg)) => done.sent = <<>>

\* C3: a message that is not decodable JSON is answered by exactly one -32700
\* error with id null, wherever it comes in the sequence, and leaves the loop
\* as it was (open, same req_id, ready for the next message)
C3_ParseErrorAnswered ==
    [][(done' # done /\ done'.msg.kind = "badjson") =>
          /\ done'.sent = <<[kind |-> "error", id |-> Null, code |-> -32700, message |-> "Parse error"]>>
          /\ req_id'[done'.loop] = req_id[done'.loop]
          /\ status'[done'.loop] = "open"
          /\ phase'[done'.loop] = "idle"
          /\ ~done'.ended]_vars

C3_Witness ==
    /\ done.msg.kind = "badjson"
    /\ req_id[done.loop] = "id1"
    /\ Len(done.sent) = 1
    /\ done.sent[1].code = -32700

\* C4: no parsing or dispatch fault ends a processing loop
C4_NoFaultEndsLoop == \A l \in Loops : status[l] # "crashed"

\* C5: a message whose dispatch raises is answered by a -32000 error whose id
\* is that message's own id if it has one, and null otherwise
C5_FaultEchoesOwnId ==
    (done.loop # "none" /\ DispatchFaults(done.msg)) =>
        /\ Len(done.sent) = 1
        /\ done.sent[1].kind = "error"
        /\ done.sent[1].code = -32000
        /\ done.sent[1].id = RecoverableId(done.msg)

\* the tools/call just processed failed in execution
ToolFailed == /\ done.loop # "none"
              /\ done.msg.kind = "object"
              /\ done.msg.method = "tools/call"
              /\ \/ done.outcome.t \in {"timeout", "launchfail"}
                 \/ done.outcome.t = "exit" /\ done.outcome.rc # 0
                 \/ /\ done.outcome.t = "none"
                    /\ done.msg.params.shape # "bad"
                    /\ Get(done.msg.params.name) \notin KnownTools

\* C6: a tools/call whose execution fails is answered by a message carrying
\* `result` whose payload is {error: {message, code}}: code is the process
\* return code, or -1 when there is none; for an unknown tool the message is
\* `Unknown tool: <name>`
C6_ToolFailureInResult ==
    ToolFailed =>
        /\ Len(done.sent) = 1
        /\ done.sent[1].kind = "result"
        /\ DOMAIN done.sent[1].result = {"error"}
        /\ DOMAIN done.sent[1].result.error = {"message", "code"}
        /\ done.outcome.t = "exit" => done.sent[1].result.error.code = done.outcome.rc
        /\ done.outcome.t = "timeout" => done.sent[1].result.error.code = -1
        /\ done.outcome.t = "launchfail" => done.sent[1].result.error.code = done.result.returncode
        /\ done.outcome.t = "none" =>
              /\ done.sent[1].result.error.code = -1
              /\ done.sent[1].result.error.message = "Unknown tool: " \o PyStr(Get(done.msg.params.name))

HasTimeoutMarker(r) == /\ "reason" \in DOMAIN r
                       /\ r.reason = "timeout"
                       /\ "returncode" \notin DOMAIN r

\* C7: the result carries the timeout marker if and only if the process
\* timed out, whatever the exit code of a process that exited by itself
C7_TimeoutDistinct ==
    done.outcome.t \in {"exit", "timeout"} =>
        (HasTimeoutMarker(done.result) <=> done.outcome.t = "timeout")

\* C8: the runner's status is ok exactly when the process launched and exited
\* with 0, is error otherwise, and every result has status, stdout, stderr,
\* duration_ms and a returncode or a timeout reason
C8_StatusClassification ==
    done.outcome.t # "none" =>
        /\ done.result.status \in {"ok", "error"}
        /\ done.result.status = "ok" <=> (done.outcome.t = "exit" /\ done.outcome.rc = 0)
        /\ {"status", "stdout", "stderr", "duration_ms"} \subseteq DOMAIN done.result
        /\ \/ "returncode" \in DOMAIN done.result
           \/ "reason" \in DOMAIN done.result /\ done.result.reason = "timeout"

C8_Witness ==
    /\ done.outcome.t = "launchfail"
    /\ done.result.status = "error"
    /\ done.result.returncode = 1

\* C9: while one connection waits on its external process, a message on
\* another open connection can be read and dispatched
C9_NoCrossBlocking ==
    \A c1, c2 \in Conns :
        (c1 # c2 /\ phase[c1] = "running" /\ status[c2] = "open") => ENABLED DuplexRecv(c2)

\* C10: a loop that is processing a message does nothing else until it has
\* written that message's response: it reads no further message and launches
\* no further process, and the one message it then writes answers the message
\* in progress
C10_Sequential ==
    [][\A l \in Loops :
          phase[l] = "running" =>
              \/ /\ phase'[l] = phase[l] /\ cur'[l] = cur[l] /\ proc'[l] = proc[l]
                 /\ req_id'[l] = req_id[l]
                 /\ done'.loop = l => done' = done
              \/ /\ phase'[l] = "idle"
                 /\ done'.loop = l
                 /\ done'.msg = cur[l]
                 /\ done'.launched = proc[l]
                 /\ Len(done'.sent) = 1]_vars

C10_Witness ==
    /\ done.loop = "stdio"
    /\ done.outcome.t = "timeout"
    /\ phase["stdio"] = "idle"
    /\ req_id["stdio"] = "id1"
    /\ lingering = 1
    /\ Len(done.sent) = 1

\* external processes started by the server that are alive: the one a loop
\* waits on, and killed ones that have not terminated yet
AliveProcesses == lingering + Cardinality({l \in Loops : phase[l] = "running"})

\* C11: in stdio mode no two external processes launched by the server are
\* alive at the same time
C11_OneProcessAtATime == mode = "stdio" => AliveProcesses <= 1

\* C12: from the state any open loop is in, the duplex handler and the stdio
\* loop do the same with every message: same messages written, same req_id
\* left, same wait on the process, and both go on
C12_BindingsEquivalent ==
    \A l \in Loops :
        status[l] = "open" =>
            \A m \in Messages, launchOk \in BOOLEAN :
                DuplexStep(req_id[l], m, launchOk, TOOLS) = StdioStep(req_id[l], m, launchOk, TOOLS)

\* C13: every wait on an external process ends (exit, or timeout and kill):
\* the loop that waited (one loop waits at a time) gets back to reading,
\* still open, having written one response
C13_RunnerReturns ==
    (\E l \in Loops : phase[l] = "running") ~>
        /\ \A l \in Loops : phase[l] = "idle"
        /\ done.loop \in Loops
        /\ done.launched # <<>>
        /\ status[done.loop] = "open"
        /\ Len(done.sent) = 1

C13_Witness ==
    /\ done.loop = "stdio"
    /\ done.outcome.t = "timeout"
    /\ phase["stdio"] = "idle"
    /\ status["stdio"] = "open"
    /\ Len(done.sent) = 1

\* the methods C14 counts as recognized
RecognizedMethods == RoutedMethods \cup {"notifications/initialized"}

HasCode(sent, code) ==
    \E i \in 1..Len(sent) : sent[i].kind = "error" /\ sent[i].code = code

\* C14: a request with an unrecognized method is answered by a -32601 error
\* with the request's id whose message names the method, and no recognized
\* method is ever answered by -32601
C14_MethodNotFound ==
    (done.loop # "none" /\ done.msg.kind = "object" /\ done.msg.method # NoKey) =>
        /\ (IsRequest(done.msg) /\ done.msg.method \notin RecognizedMethods) =>
              done.sent = <<[kind |-> "error", id |-> done.msg.id, code |-> -32601,
                             message |-> "Method not found: " \o done.msg.method]>>
        /\ done.msg.method \in RecognizedMethods => ~HasCode(done.sent, -32601)

\* C15: a request with a legacy method name loadScene, setPose or render is
\* not rejected as an unknown method
C15_LegacyAccepted ==
    (done.loop # "none" /\ done.msg.kind = "object" /\ done.msg.method \in {"loadScene", "setPose", "render"}) =>
        ~HasCode(done.sent, -32601)

IsRenderCall(m) == /\ m.kind = "object"
                   /\ m.method = "tools/call"
                   /\ m.params.shape = "dict"
                   /\ m.params.name = "render_scene"
                   /\ m.params.arguments.shape # "bad"

\* the command line C16 expects for a render_scene call with these argument keys
RenderCmd(keys) ==
    <<"dazstudio.exe", "-noPrompt", "-script", "scripts/render_scene.dsa",
      "-scriptArg", IF "output_path" \in keys THEN "out.png" ELSE "",
      "-scriptArg", IF "width" \in keys THEN "1024" ELSE "800",
      "-scriptArg", IF "height" \in keys THEN "768" ELSE "600">>

\* C16: a render_scene call runs the external command with one -scriptArg
\* flag per argument in the order output_path, width, height, a missing
\* width or height replaced by 800 or 600
C16_RenderDefaults ==
    /\ \A l \in Loops :
          (phase[l] = "running" /\ IsRenderCall(cur[l])) =>
              proc[l] = RenderCmd(cur[l].params.arguments.keys)
    /\ (done.loop # "none" /\ IsRenderCall(done.msg)) =>
          done.launched = RenderCmd(done.msg.params.arguments.keys)

C16_Witness ==
    \E l \in Loops :
        /\ phase[l] = "running"
        /\ IsRenderCall(cur[l])
        /\ cur[l].params.arguments.keys = {"output_path"}
        /\ proc[l][8] = "800"
        /\ proc[l][10] = "600"

FiveTools == <<[name |-> "load_scene"], [name |-> "set_pose"], [name |-> "render_scene"],
               [name |-> "read_scene"], [name |-> "list_content"]>>

\* C17: the tool table is never modified, and every tools/list is answered
\* with the same five descriptors in the order load_scene, set_pose,
\* render_scene, read_scene, list_content
C17_ToolListStable ==
    /\ TOOLS = FiveTools
    /\ (done.loop # "none" /\ done.msg.kind = "object" /\ done.msg.method = "tools/list") =>
          done.sent = <<[kind |-> "result", id |-> Get(done.msg.id), result |-> [tools |-> FiveTools]]>>

C17_Witness ==
    /\ done.msg.kind = "object"
    /\ done.msg.method = "tools/list"
    /\ done.msg.id = "id1"
    /\ lingering = 1
    /\ Len(done.sent[1].result.tools) = 5

\* C18: the result of a run that timed out carries what the process had
\* written to stdout and stderr before it was killed, and the configured timeout
C18_TimeoutKeepsPartialOutput ==
    done.outcome.t = "timeout" =>
        /\ done.result.stdout = Strip(done.outcome.out)
        /\ done.result.stderr = Strip(done.outcome.err)
        /\ done.result.timeout_s = 60

\* what loop l does with message m when its req_id is rid
LoopStep(l, rid, m, launchOk) ==
    IF l \in Conns THEN DuplexStep(rid, m, launchOk, TOOLS) ELSE StdioStep(rid, m, launchOk, TOOLS)

\* C19: what a loop writes for a message does not depend on the messages it
\* received before: it is what a loop that has received nothing writes for it
C19_NoStateAcrossMessages ==
    \A l \in Loops :
        status[l] = "open" =>
            \A m \in Messages, launchOk \in BOOLEAN :
                LoopStep(l, req_id[l], m, launchOk).sent = LoopStep(l, Unbound, m, launchOk).sent

NamesKnownTool(m) == /\ m.kind = "object"
                     /\ m.method = "tools/call"
                     /\ m.params.shape = "dict"
                     /\ m.params.name \in {"load_scene", "set_pose", "render_scene",
                                           "read_scene", "list_content"}

\* its arguments can be read: absent, falsy or a mapping, or the tool takes none
ReadableToolCall(m) == /\ NamesKnownTool(m)
                       /\ \/ m.params.name \in {"read_scene", "list_content"}
                          \/ m.params.arguments.shape # "bad"

====
